---- MODULE Spec2Model ----
(***************************************************************************)
(* Day 5 almanac (src/day_05/src/main.rs): parsing of a blank-line         *)
(* delimited document into a seed list and mapping tables, range lookup,   *)
(* the per-seed fold through the tables and the minimum printed by main.   *)
(*                                                                         *)
(* Text is a sequence of one-character strings.  Number (u64) is modelled  *)
(* as the integers 0..MaxNumber; an addition whose result exceeds          *)
(* MaxNumber overflows: it panics when the build has overflow checks       *)
(* (debug profile) and wraps modulo MaxNumber+1 otherwise (release).       *)
(***************************************************************************)
EXTENDS Integers, Sequences, FiniteSets, TLC

VARIABLES
    overflow_checks,  \* build profile: TRUE = debug (overflow panics), FALSE = release (wraps)
    pc,               \* position of the running program (main or a test)
    input,            \* main: contents of ./src/input.txt
    almanac,          \* main: outcome of input.parse::<Almanac>()
    locations,        \* main: almanac.get_mapped_seeds()
    exit,             \* main: how the process ended
    folds,            \* main: per seed, the fold's accumulator and the tables applied
    args,             \* test: (dst, src, len) of the last Mapping::new call
    table,            \* test: the MappingTable built from Mapping::new calls
    query,            \* test: the value passed to map
    mapped,           \* test: outcome of Mapping::map on the last mapping
    table_mapped,     \* test: outcome of MappingTable::map
    text,             \* test: the &str handed to from_str
    parsed            \* test: outcome of from_str

vars == <<overflow_checks, pc, input, almanac, locations, exit, folds,
          args, table, query, mapped, table_mapped, text, parsed>>

main_vars == <<input, almanac, locations, exit, folds>>

test_vars == <<args, table, query, mapped, table_mapped, text, parsed>>

----------------------------------------------------------------------------
(* Bounds *)

MaxNumber == 2

MaxMappings == 2

MaxTables == 2

MaxBodyLines == 2

MaxTrailing == 2

MaxTokens == 3

Number == 0..MaxNumber

Modulus == MaxNumber + 1

----------------------------------------------------------------------------
(* Outcomes: Result, Option and panic *)

Ok(v) == [tag |-> "Ok", val |-> v]

Err(e) == [tag |-> "Err", err |-> e]

Panic(m) == [tag |-> "Panic", msg |-> m]

Some(v) == [tag |-> "Some", val |-> v]

None == [tag |-> "None"]

NotRun == [tag |-> "NotRun"]

\* AocError = String; the seed error interpolates the token and the cause
AocError(msg, token, cause) == [msg |-> msg, token |-> token, cause |-> cause]

AocErrorFrom(msg) == AocError(msg, <<>>, "")

----------------------------------------------------------------------------
(* str operations used by the parsers *)

LF == "\n"

CR == "\r"

TAB == "\t"

SP == " "

AsciiWhitespace == {SP, TAB, LF, CR, "\f"}

\* pat occurs in s at position i
MatchesAt(s, i, pat) ==
    /\ i + Len(pat) - 1 <= Len(s)
    /\ \A k \in 1..Len(pat) : s[i + k - 1] = pat[k]

\* position of the first occurrence of pat in s, 0 when there is none
Find(s, pat) ==
    LET hits == {i \in 1..Len(s) : MatchesAt(s, i, pat)}
    IN  IF hits = {} THEN 0 ELSE CHOOSE i \in hits : \A j \in hits : i <= j

\* str::split_once
split_once(s, pat) ==
    LET i == Find(s, pat)
    IN  IF i = 0 THEN None
        ELSE Some(<<SubSeq(s, 1, i - 1), SubSeq(s, i + Len(pat), Len(s))>>)

\* str::split (non-overlapping matches, left to right; never empty)
RECURSIVE split(_, _)
split(s, pat) ==
    LET i == Find(s, pat)
    IN  IF i = 0 THEN <<s>>
        ELSE <<SubSeq(s, 1, i - 1)>> \o split(SubSeq(s, i + Len(pat), Len(s)), pat)

\* str::replace(from, "") for a one-character from
replace_remove(s, from) == SelectSeq(s, LAMBDA c : c # from)

StripCR(l) ==
    IF Len(l) > 0 /\ l[Len(l)] = CR THEN SubSeq(l, 1, Len(l) - 1) ELSE l

\* str::lines: split at "\n" or "\r\n"; a final empty line is not yielded
lines(s) ==
    LET parts == split(s, <<LF>>)
        n     == Len(parts)
        kept  == IF parts[n] = <<>> THEN n - 1 ELSE n
    IN  [i \in 1..kept |-> IF i < n THEN StripCR(parts[i]) ELSE parts[i]]

\* str::split_ascii_whitespace: the maximal runs of non-whitespace, in order
RECURSIVE split_ascii_whitespace(_)
split_ascii_whitespace(s) ==
    IF s = <<>> THEN <<>>
    ELSE IF s[1] \in AsciiWhitespace THEN split_ascii_whitespace(Tail(s))
    ELSE LET stops == {i \in 1..Len(s) : s[i] \in AsciiWhitespace}
             stop  == IF stops = {} THEN Len(s) + 1
                      ELSE CHOOSE i \in stops : \A j \in stops : i <= j
         IN  <<SubSeq(s, 1, stop - 1)>>
                 \o split_ascii_whitespace(SubSeq(s, stop, Len(s)))

\* str::trim
RECURSIVE trim_start(_)
trim_start(s) ==
    IF s # <<>> /\ s[1] \in AsciiWhitespace THEN trim_start(Tail(s)) ELSE s

RECURSIVE trim_end(_)
trim_end(s) ==
    IF s # <<>> /\ s[Len(s)] \in AsciiWhitespace
    THEN trim_end(SubSeq(s, 1, Len(s) - 1)) ELSE s

trim(s) == trim_end(trim_start(s))

Digits == <<"0", "1", "2", "3", "4", "5", "6", "7", "8", "9">>

IsDigit(c) == \E d \in 1..10 : Digits[d] = c

DigitVal(c) == (CHOOSE d \in 1..10 : Digits[d] = c) - 1

\* accumulate the digits left to right; the first bad character decides
RECURSIVE parse_digits(_, _)
parse_digits(s, acc) ==
    IF s = <<>> THEN Ok(acc)
    ELSE IF ~IsDigit(s[1]) THEN Err("invalid digit found in string")
    ELSE IF acc * 10 + DigitVal(s[1]) > MaxNumber
         THEN Err("number too large to fit in target type")
    ELSE parse_digits(Tail(s), acc * 10 + DigitVal(s[1]))

\* str::parse::<Number>(): an optional leading "+", then decimal digits
parse_Number(s) ==
    IF s = <<>> THEN Err("cannot parse integer from empty string")
    ELSE IF s = <<"+">> \/ s = <<"-">> THEN Err("invalid digit found in string")
    ELSE IF s[1] = "+" THEN parse_digits(Tail(s), 0)
    ELSE parse_digits(s, 0)

\* Number + Number: panics under overflow checks, wraps otherwise
Add(a, b) ==
    IF a + b > MaxNumber
    THEN IF overflow_checks THEN Panic("attempt to add with overflow")
         ELSE Ok((a + b) % Modulus)
    ELSE Ok(a + b)

----------------------------------------------------------------------------
(* Seeds *)

\* .map(parse).collect::<Result<Vec<Number>, _>>(): stops at the first Err
RECURSIVE collect_numbers_into(_, _)
collect_numbers_into(tokens, vec) ==
    IF tokens = <<>> THEN Ok(vec)
    ELSE LET r == parse_Number(Head(tokens))
         IN  IF r.tag = "Err" THEN Err([token |-> Head(tokens), cause |-> r.err])
             ELSE collect_numbers_into(Tail(tokens), Append(vec, r.val))

collect_numbers(tokens) == collect_numbers_into(tokens, <<>>)

Seeds_from_str(s) ==
    LET sp == split_once(s, <<":">>)
    IN  IF sp.tag = "None" THEN Err(AocErrorFrom("split seed line"))
        ELSE LET seeds == collect_numbers(split_ascii_whitespace(sp.val[2]))
             IN  IF seeds.tag = "Err"
                 THEN Err(AocError("parse seed value", seeds.err.token, seeds.err.cause))
                 ELSE Ok(seeds.val)

----------------------------------------------------------------------------
(* Mapping *)

Range(start, end) == [start |-> start, end |-> end]

\* Range::contains
Range_contains(r, n) == r.start <= n /\ n < r.end

Mapping_new(dst, src, len) ==
    LET dest_end == Add(dst, len)
        src_end  == Add(src, len)
    IN  IF dest_end.tag = "Panic" THEN dest_end
        ELSE IF src_end.tag = "Panic" THEN src_end
        ELSE Ok([dest |-> Range(dst, dest_end.val), src |-> Range(src, src_end.val)])

\* the first two numbers of the line read as source start, destination start
Mapping_from_str_source_first(s) ==
    LET nums == collect_numbers(split_ascii_whitespace(trim(s)))
    IN  IF nums.tag = "Err" THEN Err(AocErrorFrom(nums.err.cause))
        ELSE IF Len(nums.val) # 3 THEN Err(AocErrorFrom("too few numbers in mapping"))
        ELSE Mapping_new(nums.val[2], nums.val[1], nums.val[3])

Mapping_from_str(s) ==
    LET nums == collect_numbers(split_ascii_whitespace(trim(s)))
    IN  IF nums.tag = "Err" THEN Err(AocErrorFrom(nums.err.cause))
        ELSE IF Len(nums.val) # 3 THEN Err(AocErrorFrom("too few numbers in mapping"))
        ELSE Mapping_new(nums.val[1], nums.val[2], nums.val[3])

\* the lookup that forgets to subtract the source start
Mapping_map_no_offset(m, n) ==
    IF Range_contains(m.src, n)
    THEN LET res == Add(m.dest.start, n)
         IN  IF res.tag = "Panic" THEN res ELSE Some(res.val)
    ELSE None

Mapping_map(m, n) ==
    IF Range_contains(m.src, n)
    THEN LET offset == n - m.src.start
             res    == Add(m.dest.start, offset)
         IN  IF res.tag = "Panic" THEN res ELSE Some(res.val)
    ELSE None

----------------------------------------------------------------------------
(* MappingTable *)

\* lines.skip(1).map(parse::<Mapping>).collect::<Result<Vec<Mapping>, _>>()
RECURSIVE collect_mappings_into(_, _)
collect_mappings_into(ls, vec) ==
    IF ls = <<>> THEN Ok(vec)
    ELSE LET r == Mapping_from_str(Head(ls))
         IN  IF r.tag # "Ok" THEN r
             ELSE collect_mappings_into(Tail(ls), Append(vec, r.val))

collect_mappings(ls) == collect_mappings_into(ls, <<>>)

\* a header with nothing after its destination label is accepted as well
MappingTable_from_str_lenient(s) ==
    LET ls == lines(s)
    IN  IF ls = <<>> THEN Err(AocErrorFrom("getting header line"))
        ELSE LET header == ls[1]
                 sp     == split_once(header, <<"-", "t", "o", "-">>)
             IN  IF sp.tag = "None" THEN Err(AocErrorFrom("split header"))
                 ELSE LET from     == sp.val[1]
                          to       == sp.val[2]
                          mappings == collect_mappings(Tail(ls))
                          to_part  == split_once(to, <<SP>>)
                      IN  IF mappings.tag # "Ok" THEN mappings
                          ELSE Ok([from_label |-> from,
                                   to_label   |-> IF to_part.tag = "None" THEN to
                                                  ELSE to_part.val[1],
                                   mappings   |-> mappings.val])

MappingTable_from_str(s) ==
    LET ls == lines(s)
    IN  IF ls = <<>> THEN Err(AocErrorFrom("getting header line"))
        ELSE LET header == ls[1]
                 sp     == split_once(header, <<"-", "t", "o", "-">>)
             IN  IF sp.tag = "None" THEN Err(AocErrorFrom("split header"))
                 ELSE LET from     == sp.val[1]
                          to       == sp.val[2]
                          mappings == collect_mappings(Tail(ls))
                          to_part  == split_once(to, <<SP>>)
                      IN  IF mappings.tag # "Ok" THEN mappings
                          ELSE IF to_part.tag = "None"
                               THEN Err(AocErrorFrom("split header to-part"))
                          ELSE Ok([from_label |-> from,
                                   to_label   |-> to_part.val[1],
                                   mappings   |-> mappings.val])

\* for mapping in &self.mappings { if let Some(res) = mapping.map(n) { return res } } n
RECURSIVE MappingTable_scan(_, _)
MappingTable_scan(mappings, n) ==
    IF mappings = <<>> THEN Ok(n)
    ELSE LET res == Mapping_map(Head(mappings), n)
         IN  IF res.tag = "Panic" THEN res
             ELSE IF res.tag = "Some" THEN Ok(res.val)
             ELSE MappingTable_scan(Tail(mappings), n)

Reverse(xs) == [i \in 1..Len(xs) |-> xs[Len(xs) + 1 - i]]

\* the scan started from the last mapping: the latest-declared match wins
MappingTable_map_last_wins(t, n) == MappingTable_scan(Reverse(t.mappings), n)

MappingTable_map(t, n) == MappingTable_scan(t.mappings, n)

----------------------------------------------------------------------------
(* Almanac *)

\* sections.map(parse::<MappingTable>).collect::<Result<Vec<MappingTable>, _>>()
RECURSIVE collect_tables_into(_, _)
collect_tables_into(sections, vec) ==
    IF sections = <<>> THEN Ok(vec)
    ELSE LET r == MappingTable_from_str(Head(sections))
         IN  IF r.tag # "Ok" THEN r
             ELSE collect_tables_into(Tail(sections), Append(vec, r.val))

collect_tables(sections) == collect_tables_into(sections, <<>>)

Almanac_from_str(str) ==
    LET s        == replace_remove(str, CR)
        sections == split(s, <<LF, LF>>)
    IN  IF sections = <<>> THEN Err(AocErrorFrom("empty almanac"))
        ELSE LET seeds == Seeds_from_str(Head(sections))
             IN  IF seeds.tag = "Err" THEN seeds
                 ELSE LET mapping_tables == collect_tables(Tail(sections))
                      IN  IF mapping_tables.tag # "Ok" THEN mapping_tables
                          ELSE Ok([seeds          |-> seeds.val,
                                   mapping_tables |-> mapping_tables.val])

\* self.mapping_tables.iter().fold(*seed, |s, table| table.map(s))
\* the fold taken over the tables from the last to the first
RECURSIVE fold_tables_rev(_, _)
fold_tables_rev(tables, s) ==
    IF tables = <<>> THEN Ok(s)
    ELSE LET r == MappingTable_map(tables[Len(tables)], s)
         IN  IF r.tag = "Panic" THEN r
             ELSE fold_tables_rev(SubSeq(tables, 1, Len(tables) - 1), r.val)

RECURSIVE fold_tables(_, _)
fold_tables(tables, s) ==
    IF tables = <<>> THEN Ok(s)
    ELSE LET r == MappingTable_map(Head(tables), s)
         IN  IF r.tag = "Panic" THEN r ELSE fold_tables(Tail(tables), r.val)

\* self.seeds.0.iter().map(|seed| ...).collect::<Vec<Number>>()
RECURSIVE map_seeds_into(_, _, _)
map_seeds_into(seeds, tables, vec) ==
    IF seeds = <<>> THEN Ok(vec)
    ELSE LET r == fold_tables(tables, Head(seeds))
         IN  IF r.tag = "Panic" THEN r
             ELSE map_seeds_into(Tail(seeds), tables, Append(vec, r.val))

get_mapped_seeds(a) == map_seeds_into(a.seeds, a.mapping_tables, <<>>)

\* Iterator::min
iter_min(xs) ==
    IF xs = <<>> THEN None
    ELSE Some(CHOOSE m \in {xs[i] : i \in 1..Len(xs)} :
                  \A i \in 1..Len(xs) : m <= xs[i])

----------------------------------------------------------------------------
(* Input texts *)

\* decimal rendering of a number, as it is written in the input file
RECURSIVE Fmt(_)
Fmt(n) == IF n < 10 THEN <<Digits[n + 1]>> ELSE Fmt(n \div 10) \o <<Digits[(n % 10) + 1]>>

RECURSIVE Join(_, _)
Join(parts, sep) ==
    IF parts = <<>> THEN <<>>
    ELSE IF Len(parts) = 1 THEN parts[1]
    ELSE parts[1] \o sep \o Join(Tail(parts), sep)

SeqsUpTo(S, n) == UNION {[1..k -> S] : k \in 0..n}

Newlines(k) == [i \in 1..k |-> LF]

\* a body line "dest src len"
MappingLine(d, s, l) == Fmt(d) \o <<SP>> \o Fmt(s) \o <<SP>> \o Fmt(l)

HeaderSeedSoil == <<"a", "-", "t", "o", "-", "b", SP, "m", ":">>

HeaderNoSpace == <<"a", "-", "t", "o", "-", "b">>

HeaderNoSeparator == <<"a", "b", SP, "m", ":">>

HeaderTwoSeparators == <<"a", "-", "t", "o", "-", "b", "-", "t", "o", "-", "c", SP, "m">>

HeaderTab == <<"a", "-", "t", "o", "-", "b", TAB, "m", ":">>

HeaderTabThenSpace == <<"a", "-", "t", "o", "-", "b", TAB, "m", SP, ":">>

LineBadToken == <<"1", SP, "x", SP, "1">>

\* first sections of the input file
SeedSections ==
    { <<"s", ":">>,
      <<"s", ":", SP, "0">>,
      <<"s", ":", SP, "1", SP, "0">>,
      <<"s">>,
      <<"s", ":", SP, "x">>,
      <<"s", ":", SP, "1", LF, "2">>,
      <<"s", LF, ":", SP, "1">> }

LineForward == MappingLine(1, 0, 1)

LineBackward == MappingLine(0, 1, 1)

LineOverflow == MappingLine(MaxNumber, 0, 1)

\* dest + len overflows, src + len does not, and the source range has two values
LineDestOverflow == MappingLine(MaxNumber, 0, 2)

\* table sections of the input file: header line, then body lines
InputTableSections ==
    { Join(ls, <<LF>>) : ls \in
        { <<HeaderSeedSoil>>,
          <<HeaderSeedSoil, LineForward>>,
          <<HeaderSeedSoil, LineBackward, LineForward>>,
          <<HeaderSeedSoil, LineOverflow>>,
          <<HeaderSeedSoil, LineDestOverflow>>,
          <<HeaderSeedSoil, LineForward, LineBadToken>>,
          <<HeaderNoSpace, LineBadToken>>,
          <<HeaderNoSpace, LineForward>>,
          <<HeaderNoSeparator, LineBackward>> } }

InputBodies ==
    { Join(<<s>> \o ts, <<LF, LF>>) : s \in SeedSections, ts \in SeqsUpTo(InputTableSections, MaxTables) }

\* the same text with Windows line endings
RECURSIVE WithCRLF(_)
WithCRLF(s) ==
    IF s = <<>> THEN <<>>
    ELSE (IF s[1] = LF THEN <<CR, LF>> ELSE <<s[1]>>) \o WithCRLF(Tail(s))

Inputs ==
    { b \o Newlines(k) : b \in InputBodies, k \in 0..MaxTrailing }
        \cup { WithCRLF(b) : b \in InputBodies }

\* tokens of the lines handed to Mapping::from_str
TestTokens ==
    { Fmt(0), Fmt(1), Fmt(MaxNumber), Fmt(MaxNumber + 1), <<"x">>, <<"+", "1">>, <<"-", "1">> }

TestLines ==
    { Join(ts, <<SP>>) : ts \in SeqsUpTo(TestTokens, MaxTokens + 1) }
        \cup { <<SP>> \o Join(ts, <<TAB, SP>>) \o <<SP>> : ts \in SeqsUpTo(TestTokens, MaxTokens) }

TestHeaders ==
    { HeaderSeedSoil, HeaderNoSpace, HeaderNoSeparator, HeaderTwoSeparators,
      HeaderTab, HeaderTabThenSpace }

TestBodyLines ==
    { LineForward, LineBackward, LineOverflow, LineBadToken, <<"1", SP, "2">> }

TestTableTexts ==
    { Join(<<h>> \o b, <<LF>>) \o Newlines(k) :
          h \in TestHeaders, b \in SeqsUpTo(TestBodyLines, MaxBodyLines), k \in 0..1 }
        \cup {<<>>}

----------------------------------------------------------------------------
(* main *)

EmptyTable == [from_label |-> <<>>, to_label |-> <<>>, mappings |-> <<>>]

TestIdle ==
    /\ args = <<>>
    /\ table = EmptyTable
    /\ query = 0
    /\ mapped = NotRun
    /\ table_mapped = NotRun
    /\ text = <<>>
    /\ parsed = NotRun

Init ==
    /\ overflow_checks \in BOOLEAN
    /\ pc = "main"
    /\ input \in Inputs
    /\ almanac = NotRun
    /\ locations = NotRun
    /\ exit = NotRun
    /\ folds = <<>>
    /\ TestIdle

\* let almanac = input.parse::<Almanac>().expect("parse almanac");
MainParse ==
    /\ pc = "main"
    /\ almanac' = Almanac_from_str(input)
    /\ IF almanac'.tag = "Ok"
       THEN pc' = "parsed" /\ exit' = exit
       ELSE pc' = "exited"
            /\ exit' = IF almanac'.tag = "Panic" THEN almanac' ELSE Panic("parse almanac")
    /\ UNCHANGED <<overflow_checks, input, locations, folds, test_vars>>

\* let locations = almanac.get_mapped_seeds();
MainGetMappedSeeds ==
    /\ pc = "parsed"
    /\ locations' = get_mapped_seeds(almanac.val)
    /\ IF locations'.tag = "Ok"
       THEN pc' = "mapped" /\ exit' = exit
       ELSE pc' = "exited" /\ exit' = locations'
    /\ UNCHANGED <<overflow_checks, input, almanac, folds, test_vars>>

\* println!("Part 1: {}", locations.iter().min().unwrap());
MainPrint ==
    /\ pc = "mapped"
    /\ LET m == iter_min(locations.val)
       IN  exit' = IF m.tag = "None"
                   THEN Panic("called Option::unwrap() on a None value")
                   ELSE Ok(m.val)
    /\ pc' = "exited"
    /\ UNCHANGED <<overflow_checks, input, almanac, locations, folds, test_vars>>

Next == MainParse \/ MainGetMappedSeeds \/ MainPrint

Spec == Init /\ [][Next]_vars

----------------------------------------------------------------------------
(* get_mapped_seeds taken one closure call at a time, the seeds in any order *)

\* .fold(*seed, ..): every seed starts its own accumulator
StartFolds ==
    /\ pc = "parsed"
    /\ folds' = [i \in 1..Len(almanac.val.seeds) |->
                    [acc |-> Ok(almanac.val.seeds[i]), applied |-> 0]]
    /\ pc' = "folding"
    /\ UNCHANGED <<overflow_checks, input, almanac, locations, exit, test_vars>>

\* the closure reads the accumulator of the first seed for every seed
FoldStep_shared(i) ==
    /\ pc = "folding"
    /\ folds[i].acc.tag = "Ok"
    /\ folds[i].applied < Len(almanac.val.mapping_tables)
    /\ folds' = [folds EXCEPT ![i] =
                    [acc     |-> MappingTable_map(almanac.val.mapping_tables[@.applied + 1],
                                                  folds[1].acc.val),
                     applied |-> @.applied + 1]]
    /\ UNCHANGED <<overflow_checks, pc, input, almanac, locations, exit, test_vars>>

\* |s, table| table.map(s): seed i's accumulator goes through its next table
FoldStep(i) ==
    /\ pc = "folding"
    /\ folds[i].acc.tag = "Ok"
    /\ folds[i].applied < Len(almanac.val.mapping_tables)
    /\ folds' = [folds EXCEPT ![i] =
                    [acc     |-> MappingTable_map(almanac.val.mapping_tables[@.applied + 1],
                                                  @.acc.val),
                     applied |-> @.applied + 1]]
    /\ UNCHANGED <<overflow_checks, pc, input, almanac, locations, exit, test_vars>>

FoldDone(i) ==
    folds[i].acc.tag = "Panic" \/ folds[i].applied = Len(almanac.val.mapping_tables)

\* .collect::<Vec<Number>>() once every fold has ended; a panic of a fold is
\* the panic of get_mapped_seeds
Collect ==
    /\ pc = "folding"
    /\ \A i \in DOMAIN folds : FoldDone(i)
    /\ IF \E i \in DOMAIN folds : folds[i].acc.tag = "Panic"
       THEN /\ \E i \in DOMAIN folds :
                  folds[i].acc.tag = "Panic" /\ locations' = folds[i].acc
            /\ pc' = "exited"
            /\ exit' = locations'
       ELSE /\ locations' = Ok([i \in DOMAIN folds |-> folds[i].acc.val])
            /\ pc' = "mapped"
            /\ exit' = exit
    /\ UNCHANGED <<overflow_checks, input, almanac, folds, test_vars>>

NextInterleaved ==
    \/ MainParse
    \/ StartFolds
    \/ \E i \in DOMAIN folds : FoldStep(i)
    \/ Collect
    \/ MainPrint

SpecInterleaved == Init /\ [][NextInterleaved]_vars

----------------------------------------------------------------------------
(* mod test *)

MainIdle ==
    /\ input = <<>>
    /\ almanac = NotRun
    /\ locations = NotRun
    /\ exit = NotRun
    /\ folds = <<>>

InitTest ==
    /\ overflow_checks \in BOOLEAN
    /\ pc = "test"
    /\ MainIdle
    /\ TestIdle

\* Mapping::new(dst, src, len), pushed onto the table's vec![...]; text collects
\* the matching body line "dst src len" of the test's INPUT
TestMappingNew(dst, src, len) ==
    /\ pc \in {"test", "built"}
    /\ Len(table.mappings) < MaxMappings
    /\ args' = <<dst, src, len>>
    /\ LET m == Mapping_new(dst, src, len)
       IN  IF m.tag = "Ok"
           THEN /\ table' = [table EXCEPT !.mappings = Append(@, m.val)]
                /\ text' = text \o <<LF>> \o MappingLine(dst, src, len)
                /\ pc' = "built"
           ELSE /\ table' = table
                /\ text' = text
                /\ pc' = "panicked"
    /\ UNCHANGED <<overflow_checks, main_vars, query, mapped, table_mapped, parsed>>

\* mapping.map(from) on the mapping built last, table.map(from) on the table
TestMap(n) ==
    /\ pc = "built"
    /\ query' = n
    /\ mapped' = Mapping_map(table.mappings[Len(table.mappings)], n)
    /\ table_mapped' = MappingTable_map(table, n)
    /\ pc' = "mapped"
    /\ UNCHANGED <<overflow_checks, main_vars, args, table, text, parsed>>

\* Mapping::from_str(line)
TestMappingFromStr(line) ==
    /\ pc = "test"
    /\ text' = line
    /\ parsed' = Mapping_from_str(line)
    /\ pc' = "parsed_mapping"
    /\ UNCHANGED <<overflow_checks, main_vars, args, table, query, mapped, table_mapped>>

\* MappingTable::from_str(INPUT)
TestTableFromStr(t) ==
    /\ pc = "test"
    /\ text' = t
    /\ parsed' = MappingTable_from_str(t)
    /\ pc' = "parsed_table"
    /\ UNCHANGED <<overflow_checks, main_vars, args, table, query, mapped, table_mapped>>

\* labels of the table the test builds, and of the header of its INPUT; the
\* destination label holds the separator a second time
TestLabels ==
    { <<<<"s", "e">>, <<"b", "-", "t", "o", "-", "c">>>> }

\* let table = MappingTable { from_label, to_label, mappings: vec![...] };
\* assert_eq!(MappingTable::from_str(INPUT), Ok(table));
TestConstructsMappingTable(from, to) ==
    /\ pc \in {"test", "built"}
    /\ table' = [table EXCEPT !.from_label = from, !.to_label = to]
    /\ text' = from \o <<"-", "t", "o", "-">> \o to \o <<SP, "m", "a", "p", ":">> \o text
    /\ parsed' = MappingTable_from_str(text')
    /\ pc' = "constructed"
    /\ UNCHANGED <<overflow_checks, main_vars, args, query, mapped, table_mapped>>

NextTest ==
    \/ \E dst \in Number, src \in Number, len \in Number : TestMappingNew(dst, src, len)
    \/ \E n \in Number : TestMap(n)
    \/ pc = "test" /\ \E line \in TestLines : TestMappingFromStr(line)
    \/ pc = "test" /\ \E t \in TestTableTexts : TestTableFromStr(t)

SpecTest == InitTest /\ [][NextTest]_vars

\* test it_constructs_mapping_table: the vec![Mapping::new(..), ..] of the
\* expected table, then the comparison with the parsed INPUT
NextConstructs ==
    \/ \E dst, src, len \in Number : TestMappingNew(dst, src, len)
    \/ \E labels \in TestLabels : TestConstructsMappingTable(labels[1], labels[2])

SpecConstructs == InitTest /\ [][NextConstructs]_vars

----------------------------------------------------------------------------
(* The error taxonomy of the specification, over the messages of the code *)

ErrorKind(e) ==
    IF e.msg \in {"split seed line", "parse seed value"} THEN "MalformedSeeds"
    ELSE IF e.msg \in {"getting header line", "split header", "split header to-part"}
         THEN "MalformedHeader"
    ELSE IF e.msg = "empty almanac" THEN "EmptyInput"
    ELSE "MalformedMapping"

SetMin(S) == CHOOSE m \in S : \A x \in S : m <= x

----------------------------------------------------------------------------
(* C1 *)

\* C1: Mapping::new(dest, src, len).map(v) is Some(dest + (v - src)) when
\* src <= v < src + len and None otherwise (len = 0 never matches).
C1_LookupIsOffsetInRange ==
    pc = "mapped" =>
        LET dst == args[1]
            src == args[2]
            len == args[3]
        IN  mapped = IF src <= query /\ query < src + len
                     THEN Some(dst + (query - src))
                     ELSE None

----------------------------------------------------------------------------
(* C2 *)

\* the mappings of t, by position, whose source range contains v
Hits(t, v) ==
    {i \in 1..Len(t.mappings) : t.mappings[i].src.start <= v /\ v < t.mappings[i].src.end}

\* C2: MappingTable::map(v) is the lookup result of the earliest-declared
\* mapping whose source range contains v, and v itself when there is none.
C2_FirstMatchWins ==
    pc = "mapped" =>
        table_mapped = IF Hits(table, query) = {} THEN Ok(query)
                       ELSE Ok(Mapping_map(table.mappings[SetMin(Hits(table, query))], query).val)

\* two overlapping source ranges with different results: the first one decided
C2_Witness ==
    /\ pc = "mapped"
    /\ Hits(table, query) = {1, 2}
    /\ Mapping_map(table.mappings[1], query) # Mapping_map(table.mappings[2], query)
    /\ table_mapped = Ok(Mapping_map(table.mappings[1], query).val)

----------------------------------------------------------------------------
(* C3 *)

\* one table applied to v, by the contract: first containing range, else v
Resolve(t, v) ==
    IF Hits(t, v) = {} THEN v
    ELSE LET m == t.mappings[SetMin(Hits(t, v))]
         IN  (m.dest.start + (v - m.src.start)) % Modulus

\* T_k(...T_2(T_1(v)))
RECURSIVE Composed(_, _, _)
Composed(tables, k, v) ==
    IF k = 0 THEN v ELSE Resolve(tables[k], Composed(tables, k - 1, v))

\* T_1(...T_{k-1}(T_k(v))): the tables taken in the opposite order
RECURSIVE ComposedBackwards(_, _, _)
ComposedBackwards(tables, k, v) ==
    IF k > Len(tables) THEN v
    ELSE Resolve(tables[k], ComposedBackwards(tables, k + 1, v))

\* C3: get_mapped_seeds returns one value per seed, in seed order, each the
\* seed passed through every table in document order.
C3_FoldInDocumentOrder ==
    locations.tag = "Ok" =>
        LET seeds  == almanac.val.seeds
            tables == almanac.val.mapping_tables
        IN  /\ Len(locations.val) = Len(seeds)
            /\ \A i \in 1..Len(seeds) :
                   locations.val[i] = Composed(tables, Len(tables), seeds[i])

\* two seeds through two tables whose order matters
C3_Witness ==
    /\ overflow_checks
    /\ locations.tag = "Ok"
    /\ Len(almanac.val.seeds) = 2
    /\ Len(almanac.val.mapping_tables) = 2
    /\ locations.val # almanac.val.seeds
    /\ \E i \in 1..2 :
           locations.val[i] # ComposedBackwards(almanac.val.mapping_tables, 1, almanac.val.seeds[i])

----------------------------------------------------------------------------
(* C4 *)

\* C4: main reports the minimum of the resolved values, and ends with an
\* EmptyInput error, not a crash, when the seed list is empty.
C4_MinimumOrEmptyInput ==
    (pc = "exited" /\ locations.tag = "Ok") =>
        IF locations.val = <<>>
        THEN exit.tag = "Err" /\ ErrorKind(exit.err) = "EmptyInput"
        ELSE /\ exit.tag = "Ok"
             /\ \E i \in 1..Len(locations.val) : exit.val = locations.val[i]
             /\ \A i \in 1..Len(locations.val) : exit.val <= locations.val[i]

----------------------------------------------------------------------------
(* C5 *)

\* C5: Almanac::from_str ends with a Document or an error value for every
\* input text; it never panics.
C5_ParseNeverPanics ==
    almanac.tag \in {"NotRun", "Ok", "Err"}

----------------------------------------------------------------------------
(* C6 *)

FirstSection(str) == Head(split(replace_remove(str, CR), <<LF, LF>>))

FirstLine(s) == IF lines(s) = <<>> THEN <<>> ELSE lines(s)[1]

\* the tokens after the first colon of a line; <<>> when it has no colon
TokensAfterColon(l) ==
    IF split_once(l, <<":">>).tag = "None" THEN <<>>
    ELSE split_ascii_whitespace(split_once(l, <<":">>).val[2])

\* C6: the seeds are the tokens after the colon of the first line of the
\* first section, in order; parsing fails with MalformedSeeds when that line
\* has no colon or one of those tokens is no number; later lines of the
\* first section contribute nothing.
C6_SeedsFromFirstLineOnly ==
    almanac.tag \in {"Ok", "Err"} =>
        LET l      == FirstLine(FirstSection(input))
            tokens == TokensAfterColon(l)
        IN  IF \/ split_once(l, <<":">>).tag = "None"
               \/ \E i \in 1..Len(tokens) : parse_Number(tokens[i]).tag = "Err"
            THEN almanac.tag = "Err" /\ ErrorKind(almanac.err) = "MalformedSeeds"
            ELSE almanac.tag = "Ok" =>
                     almanac.val.seeds = [i \in 1..Len(tokens) |-> parse_Number(tokens[i]).val]

----------------------------------------------------------------------------
(* C7 *)

Separator == <<"-", "t", "o", "-">>

Header(t) == lines(t)[1]

BodyLines(t) == Tail(lines(t))

\* every body line yields a Range Mapping
ValidBody(t) ==
    \A i \in 1..Len(BodyLines(t)) : Mapping_from_str(BodyLines(t)[i]).tag = "Ok"

BeforeSeparator(h) == SubSeq(h, 1, Find(h, Separator) - 1)

AfterSeparator(h) == SubSeq(h, Find(h, Separator) + Len(Separator), Len(h))

\* s up to, and without, its first character in stops; all of s when there is none
UpToFirst(s, stops) ==
    IF \E i \in 1..Len(s) : s[i] \in stops
    THEN SubSeq(s, 1, SetMin({i \in 1..Len(s) : s[i] \in stops}) - 1)
    ELSE s

\* C7 as stated: with a valid body the table parse succeeds for every header
\* that contains "-to-" (labels: the text before the first "-to-", the text
\* after it up to its first whitespace) and fails with MalformedHeader
\* exactly when the header has no "-to-".
C7_AnyHeaderWithSeparatorParses ==
    (pc = "parsed_table" /\ lines(text) # <<>> /\ ValidBody(text)) =>
        IF Find(Header(text), Separator) = 0
        THEN parsed.tag = "Err" /\ ErrorKind(parsed.err) = "MalformedHeader"
        ELSE /\ parsed.tag = "Ok"
             /\ parsed.val.from_label = BeforeSeparator(Header(text))
             /\ parsed.val.to_label = UpToFirst(AfterSeparator(Header(text)), AsciiWhitespace)

\* C7 (amended): with a valid body the table parse succeeds exactly when the
\* header contains "-to-" and a space character somewhere after the first
\* "-to-"; the labels are the text before the first "-to-" and the text after
\* it up to the first space; it fails with "split header" when there is no
\* "-to-" and with "split header to-part" when no space follows it.
C7_HeaderNeedsSeparatorAndSpace ==
    (pc = "parsed_table" /\ lines(text) # <<>> /\ ValidBody(text)) =>
        IF Find(Header(text), Separator) = 0
        THEN parsed = Err(AocErrorFrom("split header"))
        ELSE IF \A i \in 1..Len(AfterSeparator(Header(text))) :
                    AfterSeparator(Header(text))[i] # SP
        THEN parsed = Err(AocErrorFrom("split header to-part"))
        ELSE /\ parsed.tag = "Ok"
             /\ parsed.val.from_label = BeforeSeparator(Header(text))
             /\ parsed.val.to_label = UpToFirst(AfterSeparator(Header(text)), {SP})
             /\ Len(parsed.val.mappings) = Len(BodyLines(text))

\* a header with "-to-" and no space after it, over a valid non-empty body, is rejected
C7_Witness ==
    /\ overflow_checks
    /\ pc = "parsed_table"
    /\ lines(text) # <<>>
    /\ BodyLines(text) # <<>>
    /\ ValidBody(text)
    /\ Find(Header(text), Separator) # 0
    /\ parsed = Err(AocErrorFrom("split header to-part"))

----------------------------------------------------------------------------
(* C8 *)

RECURSIVE StripTrailingNewlines(_)
StripTrailingNewlines(s) ==
    IF s # <<>> /\ s[Len(s)] = LF THEN StripTrailingNewlines(SubSeq(s, 1, Len(s) - 1)) ELSE s

\* C8: a text that parses to a Document still parses, to the same Document,
\* with blank lines appended at its end.
C8_TrailingBlankLinesTolerated ==
    almanac.tag # "NotRun" =>
        LET base == StripTrailingNewlines(input)
        IN  (Len(input) >= Len(base) + 2 /\ Almanac_from_str(base).tag = "Ok") =>
                almanac = Almanac_from_str(base)

----------------------------------------------------------------------------
(* C9 *)

AllNumbers(tokens) == \A i \in 1..Len(tokens) : parse_Number(tokens[i]).tag = "Ok"

WellFormedLine(l) ==
    Len(split_ascii_whitespace(l)) = 3 /\ AllNumbers(split_ascii_whitespace(l))

NumberAt(l, i) == parse_Number(split_ascii_whitespace(l)[i]).val

\* C9: a body line that is not exactly three whitespace-separated numbers
\* fails with MalformedMapping, and so does the table; every other line
\* becomes one Range Mapping (dest src len), the mappings in line order.
C9_BodyLineIsThreeNumbers ==
    /\ pc = "parsed_mapping" =>
           IF WellFormedLine(text)
           THEN /\ parsed.tag = "Ok"
                /\ parsed.val.dest.start = NumberAt(text, 1)
                /\ parsed.val.src.start = NumberAt(text, 2)
           ELSE parsed.tag = "Err" /\ ErrorKind(parsed.err) = "MalformedMapping"
    /\ (pc = "parsed_table" /\ lines(text) # <<>>
            /\ Find(Header(text), Separator) # 0
            /\ \E i \in 1..Len(AfterSeparator(Header(text))) : AfterSeparator(Header(text))[i] = SP) =>
           IF \A i \in 1..Len(BodyLines(text)) : WellFormedLine(BodyLines(text)[i])
           THEN /\ parsed.tag = "Ok"
                /\ Len(parsed.val.mappings) = Len(BodyLines(text))
                /\ \A i \in 1..Len(BodyLines(text)) :
                       /\ parsed.val.mappings[i].dest.start = NumberAt(BodyLines(text)[i], 1)
                       /\ parsed.val.mappings[i].src.start = NumberAt(BodyLines(text)[i], 2)
           ELSE parsed.tag = "Err" /\ ErrorKind(parsed.err) = "MalformedMapping"

----------------------------------------------------------------------------
(* C10 *)

Sections(str) == split(replace_remove(str, CR), <<LF, LF>>)

\* what the header line of a table section is rejected with, if it is
HeaderOutcome(sec) ==
    IF lines(sec) = <<>> THEN Err(AocErrorFrom("getting header line"))
    ELSE IF Find(Header(sec), Separator) = 0 THEN Err(AocErrorFrom("split header"))
    ELSE IF \A i \in 1..Len(AfterSeparator(Header(sec))) : AfterSeparator(Header(sec))[i] # SP
         THEN Err(AocErrorFrom("split header to-part"))
    ELSE Ok(<<>>)

BadLines(sec) ==
    {i \in 1..Len(BodyLines(sec)) : Mapping_from_str(BodyLines(sec)[i]).tag # "Ok"}

\* the outcome of the first malformed part of a table section: header, then body lines
SectionOutcome(sec) ==
    IF HeaderOutcome(sec).tag # "Ok" THEN HeaderOutcome(sec)
    ELSE IF BadLines(sec) # {} THEN Mapping_from_str(BodyLines(sec)[SetMin(BadLines(sec))])
    ELSE Ok(<<>>)

BadSections(str) ==
    {k \in 2..Len(Sections(str)) : SectionOutcome(Sections(str)[k]).tag # "Ok"}

\* the outcome of the first malformed part of the document
FirstMalformed(str) ==
    IF Seeds_from_str(Sections(str)[1]).tag = "Err" THEN Seeds_from_str(Sections(str)[1])
    ELSE IF BadSections(str) # {} THEN SectionOutcome(Sections(str)[SetMin(BadSections(str))])
    ELSE Ok(<<>>)

\* C10: a text with a malformed part yields no Document, and the error
\* returned is that of the malformed part that comes first in document order
\* (seed line, then each table in order: its header line, then its body lines).
C10_FirstErrorInDocumentOrder ==
    /\ (almanac.tag = "Ok") => FirstMalformed(input).tag = "Ok"
    /\ (almanac.tag = "Err") => almanac = FirstMalformed(input)

----------------------------------------------------------------------------
(* C11 *)

\* the value of seed v when it reaches table k: after tables 1..k-1
Reaching(tables, k, v) == Composed(tables, k - 1, v)

\* C11: once the Document has parsed, resolution cannot fail: get_mapped_seeds
\* returns a value for every seed, and no lookup on the way overflows in
\* dest_start + (value - source_start).
C11_ResolutionCannotFail ==
    locations.tag # "NotRun" =>
        /\ locations.tag = "Ok"
        /\ \A i \in 1..Len(almanac.val.seeds), k \in 1..Len(almanac.val.mapping_tables) :
               LET t == almanac.val.mapping_tables[k]
                   v == Reaching(almanac.val.mapping_tables, k, almanac.val.seeds[i])
               IN  Hits(t, v) # {} =>
                       t.mappings[SetMin(Hits(t, v))].dest.start
                           + (v - t.mappings[SetMin(Hits(t, v))].src.start) <= MaxNumber

----------------------------------------------------------------------------
(* C12 *)

\* C12: parsing "<src>-to-<dst> map:" followed by one line "d s l" per Range
\* Mapping yields the table constructed directly with those labels and
\* Mapping::new(d, s, l) in the same order, so both resolve every value alike.
C12_ParseEqualsConstruction ==
    pc = "constructed" =>
        /\ parsed = Ok(table)
        /\ \A v \in Number : MappingTable_map(parsed.val, v) = MappingTable_map(table, v)

\* a table of two different mappings that moves some value has been built and
\* its rendering parsed
C12_Witness ==
    /\ pc = "constructed"
    /\ overflow_checks
    /\ Len(table.mappings) = 2
    /\ table.mappings[1] # table.mappings[2]
    /\ table.to_label = <<"b", "-", "t", "o", "-", "c">>
    /\ parsed.tag = "Ok"
    /\ parsed.val.mappings = table.mappings
    /\ \E v \in Number : MappingTable_map(table, v) # Ok(v)

----------------------------------------------------------------------------
(* C14 *)

\* Mapping::new(dst, src, len) was called last and neither range end overflowed
BuiltWithoutOverflow ==
    /\ pc \in {"built", "mapped"}
    /\ args[1] + args[3] <= MaxNumber
    /\ args[2] + args[3] <= MaxNumber

\* C14: a Mapping built by Mapping::new without overflow has a source range and
\* a destination range of the same length len, and whenever map(n) = Some(r),
\* r lies in [dst, dst + len) with r - dst = n - src: the lookup is an
\* order-preserving bijection from the source range onto the destination range.
C14_RangesAlignedBijection ==
    BuiltWithoutOverflow =>
        LET dst == args[1]
            src == args[2]
            len == args[3]
            m   == table.mappings[Len(table.mappings)]
        IN  /\ m.src.end - m.src.start = len
            /\ m.dest.end - m.dest.start = len
            /\ pc = "mapped" /\ mapped.tag = "Some" =>
                   /\ dst <= mapped.val /\ mapped.val < dst + len
                   /\ mapped.val - dst = query - src
            /\ \A r \in dst..(dst + len - 1) :
                   \E n \in src..(src + len - 1) : Mapping_map(m, n) = Some(r)
            /\ \A n1, n2 \in src..(src + len - 1) :
                   n1 < n2 => Mapping_map(m, n1).val < Mapping_map(m, n2).val

\* a lookup through a mapping whose two ranges start apart has hit
C14_Witness ==
    /\ BuiltWithoutOverflow
    /\ pc = "mapped"
    /\ args[1] # args[2]
    /\ mapped.tag = "Some"
    /\ mapped.val # query

----------------------------------------------------------------------------
(* C13 *)

\* the sequence xs taken in the order p
Permuted(xs, p) == [i \in 1..Len(xs) |-> xs[p[i]]]

\* C13: whatever the order in which the seeds' folds take their steps, every
\* seed ends at the value get_mapped_seeds gives it, and for every permutation
\* of the Seed List the resolved values are the same per seed and the
\* reported minimum is the same.
C13_OrderIndependent ==
    locations.tag # "NotRun" =>
        \A p \in Permutations(1..Len(almanac.val.seeds)) :
            LET r == get_mapped_seeds([almanac.val EXCEPT !.seeds = Permuted(@, p)])
            IN  IF locations.tag = "Ok"
                THEN /\ r = Ok(Permuted(locations.val, p))
                     /\ iter_min(r.val) = iter_min(locations.val)
                     /\ pc = "exited" /\ locations.val # <<>> => exit = Ok(iter_min(r.val).val)
                ELSE r = locations

\* two seeds with different resolved values have gone through two tables
C13_Witness ==
    /\ overflow_checks
    /\ pc = "exited"
    /\ locations.tag = "Ok"
    /\ Len(locations.val) = 2
    /\ locations.val[1] # locations.val[2]
    /\ locations.val # almanac.val.seeds
    /\ Len(almanac.val.mapping_tables) = 2
    /\ \A i \in DOMAIN folds : folds[i].applied = 2

====
